---- MODULE Spec2Model ----
(***************************************************************************)
(* A model of static_linkedlist (src/src/lib.rs): one                      *)
(* StaticLinkedListBackingArray carved out of a byte buffer, and the       *)
(* StaticLinkedList handles that draw Linked<T> slots from it.             *)
(*                                                                         *)
(* Slot k of the buffer (k = 1 .. capacity, in memory order) is the        *)
(* address of a Linked<T>; NULL is the null pointer.  T is one of the test *)
(* suite's types: a zero-sized one, which new() refuses, or U32Clear,      *)
(* whose clear() stores 0.  usize arithmetic is modular: where it leaves   *)
(* the range a build with overflow checks panics and a build without them  *)
(* wraps; the build is chosen once, in Init, and the                       *)
(* width is UsizeBits.                                                     *)
(***************************************************************************)
EXTENDS Integers, Sequences, FiniteSets

\* ---------------------------------------------------------------- bounds
\* the largest buffer holds MaxSlots slots; usize is UsizeBits wide
MaxSlots == 3
UsizeBits == 3

\* ------------------------------------------------------------- constants
NULL == 0
CLEARED == 0
PtrSize == 8
U32Size == 4

UsizeMod == 2 ^ UsizeBits
UsizeMax == UsizeMod - 1

Slots == 1 .. MaxSlots
\* U32Clear values: the cleared one and one that is not
Values == {CLEARED, 1}
\* the list a call is made on and another list of the same array
Handles == {1, 2}
\* fn(&T) -> bool: a predicate is the set of values it accepts
Predicates == SUBSET Values
\* size_of::<T>() of the element types the tests use: a zero-sized type and U32Clear
ElemSizes == {0, U32Size}
Indices == 0 .. MaxSlots

VARIABLES
    status,           \* "none": no array built; "ok"; "panic"; "oob": new() wrote outside the buffer
    array,            \* StaticLinkedListBackingArray: capacity, free_space, lists, free
    buf,              \* the buffer as Linked<T> slots: buf[s].next, buf[s].data
    list,             \* the StaticLinkedList handles: size, head, tail, array, live
    frame,            \* the running remove_all_satisfying call: pc, self, predicate, cursor, prev
    last,             \* the call just made and what it returned, with what the caller saw before it
    overflow_checks,  \* the build: TRUE when rustc's overflow checks are on (debug), FALSE when off (release)
    elem_size         \* size_of::<T>() of the element type the array is instantiated with

vars == <<status, array, buf, list, frame, last, overflow_checks, elem_size>>

\* ------------------------------------------------------- usize arithmetic
Overflows(x) == x < 0 \/ x > UsizeMax
Wrap(x) == (x + UsizeMod) % UsizeMod

\* -------------------------------------------------------------- Linked<T>
\* size_of::<Linked<T>>(): the next pointer and the data, padded to the pointer's alignment
SizeOfLinked(tsize) == ((PtrSize + tsize + PtrSize - 1) \div PtrSize) * PtrSize

\* new() that lets an element type of size 0 through
IsZeroSizedNever(tsize) == FALSE

\* core::mem::size_of::<T>() == 0
IsZeroSized(tsize) == tsize = 0

\* impl Clear for U32Clear
clear(link) == [link EXCEPT !.data = CLEARED]

\* ------------------------------------------- StaticLinkedListBackingArray
\* capacity_for() that counts the elements only, not the link of each slot
capacity_for_elements(n, tsize) == n * tsize

capacity_for(n, tsize) == n * SizeOfLinked(tsize)

capacity(a) == a.capacity
free_space(a) == a.free_space
is_full(a) == a.free_space = 0
lists(a) == a.lists

\* The initialization loop of new(): n iterations from cursor, each linking the
\* slot to the adjacent one and clearing it.
RECURSIVE InitLoop(_, _, _)
InitLoop(b, cursor, n) ==
    IF n = 0 THEN [b |-> b, cursor |-> cursor]
    ELSE InitLoop([b EXCEPT ![cursor] = clear([@ EXCEPT !.next = cursor + 1])],
                  cursor + 1, n - 1)

\* new() on a buffer of cap >= 1 slots whose bytes read as content
InitMemory(content, cap) ==
    LET walked == InitLoop(content, 1, cap - 1)
    IN  [walked.b EXCEPT ![walked.cursor].next = NULL]

\* get_free() that counts the slot out before it looks at the chain
get_free_early(a, b) ==
    LET a1 == [a EXCEPT !.free_space = Wrap(a.free_space - 1)] IN
    IF a.free = NULL
    THEN [some |-> FALSE, new |-> NULL, a |-> a1, ovf |-> FALSE]
    ELSE [some |-> TRUE, new |-> a.free,
          a |-> [a1 EXCEPT !.free = b[a.free].next],
          ovf |-> Overflows(a.free_space - 1)]

\* get_free() that hands out the head of the free chain and leaves it there
get_free_kept(a, b) ==
    IF a.free = NULL
    THEN [some |-> FALSE, new |-> NULL, a |-> a, ovf |-> FALSE]
    ELSE [some |-> TRUE, new |-> a.free,
          a |-> [a EXCEPT !.free_space = Wrap(a.free_space - 1)],
          ovf |-> Overflows(a.free_space - 1)]

get_free(a, b) ==
    IF a.free = NULL
    THEN [some |-> FALSE, new |-> NULL, a |-> a, ovf |-> FALSE]
    ELSE [some |-> TRUE, new |-> a.free,
          a |-> [a EXCEPT !.free = b[a.free].next,
                          !.free_space = Wrap(a.free_space - 1)],
          ovf |-> Overflows(a.free_space - 1)]

\* free() that pushes the slot without clearing it
free_uncleared(a, b, link) ==
    [a |-> [a EXCEPT !.free = link, !.free_space = Wrap(a.free_space + 1)],
     b |-> [b EXCEPT ![link].next = a.free],
     ovf |-> Overflows(a.free_space + 1)]

free(a, b, link) ==
    [a |-> [a EXCEPT !.free = link, !.free_space = Wrap(a.free_space + 1)],
     b |-> [b EXCEPT ![link] = [next |-> a.free, data |-> CLEARED]],
     ovf |-> Overflows(a.free_space + 1)]

drop_list(a) ==
    [a |-> [a EXCEPT !.lists = Wrap(a.lists - 1)], ovf |-> Overflows(a.lists - 1)]

\* ------------------------------------------------------- StaticLinkedList
NoList == [size |-> 0, head |-> NULL, tail |-> NULL, array |-> FALSE, live |-> FALSE]

size(L) == L.size

head(b, L) == IF L.head = NULL THEN <<>> ELSE <<b[L.head].data>>
tail(b, L) == IF L.tail = NULL THEN <<>> ELSE <<b[L.tail].data>>

\* append() that forgets to link the old tail to the new slot
append_unlinked(a, b, L, v) ==
    IF ~L.array
    THEN [res |-> "NullPointer", a |-> a, b |-> b, L |-> L, ovf |-> FALSE]
    ELSE LET g == get_free(a, b) IN
         IF ~g.some
         THEN [res |-> "OutOfSpace", a |-> g.a, b |-> b, L |-> L, ovf |-> g.ovf]
         ELSE LET new == g.new
                  b1 == [b EXCEPT ![new].data = v]
                  b3 == [b1 EXCEPT ![new].next = NULL]
              IN  [res |-> "Ok", a |-> g.a, b |-> b3,
                   L |-> [L EXCEPT !.head = IF L.tail = NULL THEN new ELSE L.head,
                                   !.tail = new,
                                   !.size = Wrap(L.size + 1)],
                   ovf |-> g.ovf \/ Overflows(L.size + 1)]

append(a, b, L, v) ==
    IF ~L.array
    THEN [res |-> "NullPointer", a |-> a, b |-> b, L |-> L, ovf |-> FALSE]
    ELSE LET g == get_free(a, b) IN
         IF ~g.some
         THEN [res |-> "OutOfSpace", a |-> g.a, b |-> b, L |-> L, ovf |-> g.ovf]
         ELSE LET new == g.new
                  b1 == [b EXCEPT ![new].data = v]
                  b2 == IF L.tail = NULL THEN b1 ELSE [b1 EXCEPT ![L.tail].next = new]
                  b3 == [b2 EXCEPT ![new].next = NULL]
              IN  [res |-> "Ok", a |-> g.a, b |-> b3,
                   L |-> [L EXCEPT !.head = IF L.tail = NULL THEN new ELSE L.head,
                                   !.tail = new,
                                   !.size = Wrap(L.size + 1)],
                   ovf |-> g.ovf \/ Overflows(L.size + 1)]

prepend(a, b, L, v) ==
    IF ~L.array
    THEN [res |-> "NullPointer", a |-> a, b |-> b, L |-> L, ovf |-> FALSE]
    ELSE LET g == get_free(a, b) IN
         IF ~g.some
         THEN [res |-> "OutOfSpace", a |-> g.a, b |-> b, L |-> L, ovf |-> g.ovf]
         ELSE LET new == g.new
                  b1 == [b EXCEPT ![new].data = v]
                  b2 == [b1 EXCEPT ![new].next = L.head]
              IN  [res |-> "Ok", a |-> g.a, b |-> b2,
                   L |-> [L EXCEPT !.tail = IF L.tail = NULL THEN new ELSE L.tail,
                                   !.head = new,
                                   !.size = Wrap(L.size + 1)],
                   ovf |-> g.ovf \/ Overflows(L.size + 1)]

remove_head(a, b, L) ==
    IF L.head = NULL
    THEN [res |-> "HeadIsNull", a |-> a, b |-> b, L |-> L, ovf |-> FALSE]
    ELSE IF ~L.array
    THEN [res |-> "OutOfSpace", a |-> a, b |-> b, L |-> L, ovf |-> FALSE]
    ELSE LET b1 == [b EXCEPT ![L.head] = clear(@)]
             to_remove == L.head
             f == free(a, b1, to_remove)
         IN  [res |-> "Ok", a |-> f.a, b |-> f.b,
              L |-> [L EXCEPT !.tail = IF L.head = L.tail THEN NULL ELSE L.tail,
                              !.head = b1[L.head].next,
                              !.size = Wrap(L.size - 1)],
              ovf |-> f.ovf \/ Overflows(L.size - 1)]

\* StaticLinkedListIterator::next
IterNext(b, cursor) ==
    IF cursor = NULL THEN [item |-> <<>>, cursor |-> NULL]
    ELSE [item |-> <<b[cursor].data>>, cursor |-> b[cursor].next]

RECURSIVE Advance(_, _, _)
Advance(b, cursor, n) ==
    IF n = 0 THEN cursor ELSE Advance(b, IterNext(b, cursor).cursor, n - 1)

\* at(): Err, Ok with the element, or the panic of unwrap() on None
at(b, L, index) ==
    IF index >= size(L)
    THEN [res |-> "IndexOutOfBounds", item |-> <<>>]
    ELSE LET n == IterNext(b, Advance(b, L.head, index)) IN
         IF n.item = <<>> THEN [res |-> "panic", item |-> <<>>]
         ELSE [res |-> "Ok", item |-> n.item]

\* The loop of drop(): remove_head().unwrap() while size() > 0.  panic: unwrap()
\* met an Err; ovf: some usize operation of the run left the range.
RECURSIVE DropLoop(_, _, _)
DropLoop(a, b, L) ==
    IF ~(size(L) > 0) THEN [a |-> a, b |-> b, L |-> L, panic |-> FALSE, ovf |-> FALSE]
    ELSE LET r == remove_head(a, b, L) IN
         IF r.res # "Ok"
         THEN [a |-> r.a, b |-> r.b, L |-> r.L, panic |-> TRUE, ovf |-> FALSE]
         ELSE LET d == DropLoop(r.a, r.b, r.L) IN [d EXCEPT !.ovf = @ \/ r.ovf]

drop(a, b, L) ==
    IF ~L.array THEN [a |-> a, b |-> b, L |-> L, panic |-> FALSE, ovf |-> FALSE]
    ELSE LET d == DropLoop(a, b, L) IN
         IF d.panic THEN d
         ELSE LET x == drop_list(d.a) IN
              [a |-> x.a, b |-> d.b, L |-> d.L, panic |-> FALSE, ovf |-> d.ovf \/ x.ovf]

\* One iteration of the while loop of remove_all_satisfying
RemoveStep(a, b, L, predicate, cursor, prev) ==
    IF b[cursor].data \in predicate
    THEN LET to_remove == cursor
             L1 == IF to_remove = L.head THEN [L EXCEPT !.head = b[cursor].next] ELSE L
             L2 == IF to_remove = L.tail THEN [L1 EXCEPT !.tail = prev] ELSE L1
             b1 == IF prev # NULL THEN [b EXCEPT ![prev].next = b[cursor].next] ELSE b
             f == free(a, b1, to_remove)
         IN  [a |-> f.a, b |-> f.b,
              L |-> [L2 EXCEPT !.size = Wrap(L.size - 1)],
              prev |-> prev,
              cursor |-> f.b[cursor].next,
              ovf |-> f.ovf \/ Overflows(L.size - 1)]
    ELSE [a |-> a, b |-> b, L |-> L, prev |-> cursor, cursor |-> b[cursor].next,
          ovf |-> FALSE]

\* ------------------------------------------------------------- observers
\* The slots the iterator visits from h, cut where it would revisit one
RECURSIVE Chain(_, _, _)
Chain(b, h, seen) ==
    IF h = NULL \/ h \in seen THEN <<>>
    ELSE <<h>> \o Chain(b, b[h].next, seen \cup {h})

\* The elements `for entry in &list` yields
Iter(b, L) ==
    LET c == Chain(b, L.head, {}) IN [i \in 1 .. Len(c) |-> b[c[i]].data]

\* No call is running and the caller holds no result it has not looked at yet
Idle == status = "ok" /\ frame.pc = "idle" /\ last.op = "none"

NoFrame == [pc |-> "idle", self |-> 0, predicate |-> {}, cursor |-> NULL, prev |-> NULL]

\* What the caller can see of list l and the array before a call
Seen(l) ==
    [free_space |-> free_space(array), lists |-> lists(array), free |-> array.free,
     size |-> IF l = 0 THEN 0 ELSE size(list[l]),
     seq |-> IF l = 0 THEN <<>> ELSE Iter(buf, list[l]),
     chain |-> IF l = 0 THEN <<>> ELSE Chain(buf, list[l].head, {})]

Call(op, l, v, p, res, item) ==
    [op |-> op, l |-> l, v |-> v, p |-> p, res |-> res, item |-> item, pre |-> Seen(l)]

NoCall ==
    [op |-> "none", l |-> 0, v |-> 0, p |-> {}, res |-> "none", item |-> <<>>,
     pre |-> [free_space |-> 0, lists |-> 0, free |-> NULL, size |-> 0, seq |-> <<>>,
              chain |-> <<>>]]

\* ------------------------------------------------------------------ Init
Init ==
    /\ status = "none"
    /\ array = [capacity |-> 0, free_space |-> 0, lists |-> 0, free |-> NULL]
    /\ buf = [s \in Slots |-> [next |-> NULL, data |-> CLEARED]]
    /\ list = [h \in Handles |-> NoList]
    /\ frame = NoFrame
    /\ last = NoCall
    /\ overflow_checks \in BOOLEAN
    /\ elem_size \in ElemSizes

\* --------------------------------------------------------------- actions
\* A panic unwinds out of the caller: nothing of the array is observed afterwards.
Panic(op, l, v, p) ==
    /\ status' = "panic"
    /\ last' = Call(op, l, v, p, "panic", <<>>)
    /\ UNCHANGED <<array, buf, list, frame, overflow_checks, elem_size>>

\* StaticLinkedListBackingArray::<T>::new(&mut buffer), buffer.len() = len
NewCall ==
    /\ status = "none"
    /\ last.op = "none"
    /\ \E k \in 0 .. MaxSlots, r \in {0, 1, SizeOfLinked(elem_size) - 1} :
         LET tsize == elem_size
             len == capacity_for(k, tsize) + r
             cap == len \div SizeOfLinked(tsize)
         IN  IF IsZeroSized(tsize)
             THEN /\ last' = Call("new", 0, len, {}, "ZeroSizedType", <<>>)
                  /\ UNCHANGED <<status, array, buf, list, frame, overflow_checks, elem_size>>
             ELSE IF Overflows(cap - 1)
             THEN \* 0..(capacity - 1) with capacity = 0: a panic, or a walk over
                  \* usize::MAX slots that leaves the buffer
                  /\ status' = IF overflow_checks THEN "panic" ELSE "oob"
                  /\ last' = Call("new", 0, len, {}, status', <<>>)
                  /\ UNCHANGED <<array, buf, list, frame, overflow_checks, elem_size>>
             ELSE \E content \in [1 .. cap -> Values] :
                  /\ status' = "ok"
                  /\ array' = [capacity |-> cap, free_space |-> cap, lists |-> 0, free |-> 1]
                  /\ buf' = InitMemory(
                              [s \in Slots |-> [next |-> NULL,
                                                data |-> IF s <= cap THEN content[s] ELSE CLEARED]],
                              cap)
                  /\ last' = Call("new", 0, len, {}, "Ok", <<>>)
                  /\ UNCHANGED <<list, frame, overflow_checks, elem_size>>

NewListCall ==
    /\ Idle
    /\ \E l \in Handles :
         /\ ~list[l].live
         /\ \A k \in Handles : k < l => list[k].live
         /\ \/ Overflows(array.lists + 1) /\ overflow_checks /\ Panic("new_list", l, 0, {})
            \/   /\ Overflows(array.lists + 1) => ~overflow_checks
                 /\ array' = [array EXCEPT !.lists = Wrap(array.lists + 1)]
                 /\ list' = [list EXCEPT ![l] = [size |-> 0, head |-> NULL, tail |-> NULL,
                                                 array |-> TRUE, live |-> TRUE]]
                 /\ last' = Call("new_list", l, 0, {}, "Ok", <<>>)
                 /\ UNCHANGED <<status, buf, frame, overflow_checks, elem_size>>

AppendCall ==
    /\ Idle
    /\ \E l \in Handles, v \in Values :
         /\ list[l].live
         /\ LET r == append(array, buf, list[l], v) IN
            \/ r.ovf /\ overflow_checks /\ Panic("append", l, v, {})
            \/   /\ r.ovf => ~overflow_checks
                 /\ array' = r.a
                 /\ buf' = r.b
                 /\ list' = [list EXCEPT ![l] = r.L]
                 /\ last' = Call("append", l, v, {}, r.res, <<>>)
                 /\ UNCHANGED <<status, frame, overflow_checks, elem_size>>

PrependCall ==
    /\ Idle
    /\ \E l \in Handles, v \in Values :
         /\ list[l].live
         /\ LET r == prepend(array, buf, list[l], v) IN
            \/ r.ovf /\ overflow_checks /\ Panic("prepend", l, v, {})
            \/   /\ r.ovf => ~overflow_checks
                 /\ array' = r.a
                 /\ buf' = r.b
                 /\ list' = [list EXCEPT ![l] = r.L]
                 /\ last' = Call("prepend", l, v, {}, r.res, <<>>)
                 /\ UNCHANGED <<status, frame, overflow_checks, elem_size>>

RemoveHeadCall ==
    /\ Idle
    /\ \E l \in Handles :
         /\ list[l].live
         /\ LET r == remove_head(array, buf, list[l]) IN
            \/ r.ovf /\ overflow_checks /\ Panic("remove_head", l, 0, {})
            \/   /\ r.ovf => ~overflow_checks
                 /\ array' = r.a
                 /\ buf' = r.b
                 /\ list' = [list EXCEPT ![l] = r.L]
                 /\ last' = Call("remove_head", l, 0, {}, r.res, <<>>)
                 /\ UNCHANGED <<status, frame, overflow_checks, elem_size>>

AtCall ==
    /\ Idle
    /\ \E l \in Handles, index \in Indices :
         /\ list[l].live
         /\ LET r == at(buf, list[l], index) IN
            IF r.res = "panic"
            THEN Panic("at", l, index, {})
            ELSE /\ last' = Call("at", l, index, {}, r.res, r.item)
                 /\ UNCHANGED <<status, array, buf, list, frame, overflow_checks, elem_size>>

\* The list handle goes out of scope
DropCall ==
    /\ Idle
    /\ \E l \in Handles :
         /\ list[l].live
         /\ LET d == drop(array, buf, list[l]) IN
            \/ (d.panic \/ (d.ovf /\ overflow_checks)) /\ Panic("drop", l, 0, {})
            \/   /\ ~d.panic
                 /\ d.ovf => ~overflow_checks
                 /\ array' = d.a
                 /\ buf' = d.b
                 /\ list' = [list EXCEPT ![l] = NoList]
                 /\ last' = Call("drop", l, 0, {}, "Ok", <<>>)
                 /\ UNCHANGED <<status, frame, overflow_checks, elem_size>>

\* remove_all_satisfying(predicate) is entered: cursor = head, prev = null; with
\* nothing to walk the loop is skipped and the call returns Ok(self)
RemoveAllCall ==
    /\ Idle
    /\ \E l \in Handles, predicate \in Predicates :
         /\ list[l].live
         /\ frame' = IF list[l].head = NULL THEN NoFrame
                      ELSE [pc |-> "loop", self |-> l, predicate |-> predicate,
                            cursor |-> list[l].head, prev |-> NULL]
         /\ last' = Call("remove_all_satisfying", l, 0, predicate,
                          IF list[l].head = NULL THEN "Ok" ELSE "running", <<>>)
         /\ UNCHANGED <<status, array, buf, list, overflow_checks, elem_size>>

\* One pass of its while loop; when the pass leaves cursor null the loop ends and
\* the call returns Ok(self)
RemoveAllStep ==
    /\ status = "ok"
    /\ frame.pc = "loop"
    /\ LET r == RemoveStep(array, buf, list[frame.self], frame.predicate,
                           frame.cursor, frame.prev) IN
       \/ /\ r.ovf
          /\ overflow_checks
          /\ status' = "panic"
          /\ last' = [last EXCEPT !.res = "panic"]
          /\ UNCHANGED <<array, buf, list, frame, overflow_checks, elem_size>>
       \/ /\ r.ovf => ~overflow_checks
          /\ array' = r.a
          /\ buf' = r.b
          /\ list' = [list EXCEPT ![frame.self] = r.L]
          /\ frame' = IF r.cursor = NULL THEN NoFrame
                       ELSE [frame EXCEPT !.cursor = r.cursor, !.prev = r.prev]
          /\ last' = IF r.cursor = NULL THEN [last EXCEPT !.res = "Ok"] ELSE last
          /\ UNCHANGED <<status, overflow_checks, elem_size>>

\* The caller has looked at what the call returned and goes on
Continue ==
    /\ status \in {"none", "ok"}
    /\ frame.pc = "idle"
    /\ last.op # "none"
    /\ last' = NoCall
    /\ UNCHANGED <<status, array, buf, list, frame, overflow_checks, elem_size>>

Next ==
    \/ NewCall
    \/ NewListCall
    \/ AppendCall
    \/ PrependCall
    \/ RemoveHeadCall
    \/ AtCall
    \/ DropCall
    \/ RemoveAllCall
    \/ RemoveAllStep
    \/ Continue

Spec == Init /\ [][Next]_vars

\* ---------------------------------------------------------------- claims
\* The abstract side of the claims: the elements a sequence holds, the elements
\* of s that do not satisfy a predicate, the sizes of the live lists.
Range(s) == {s[i] : i \in 1 .. Len(s)}

RECURSIVE Keep(_, _)
Keep(s, predicate) ==
    IF s = <<>> THEN <<>>
    ELSE (IF Head(s) \in predicate THEN <<>> ELSE <<Head(s)>>) \o Keep(Tail(s), predicate)

RECURSIVE SumSizes(_)
SumSizes(hs) ==
    IF hs = {} THEN 0
    ELSE LET h == CHOOSE x \in hs : TRUE IN
         (IF list[h].live THEN size(list[h]) ELSE 0) + SumSizes(hs \ {h})

Returned(op) == last.op = op /\ last.res # "panic" /\ last.res # "running"

Self == list[last.l]

\* C1: whenever the caller can observe the array (it is built and no call is
\* running), free_space() plus the sum of size() over the live lists equals
\* capacity().
CapacityAccounting ==
    (status = "ok" /\ frame.pc = "idle")
        => free_space(array) + SumSizes(Handles) = capacity(array)

\* C2: when remove_all_satisfying(predicate) returns, the list iterates as the
\* elements it held before that do not satisfy the predicate, in their order.
RemoveAllLeavesTheOthers ==
    (last.op = "remove_all_satisfying" /\ last.res = "Ok")
        => Iter(buf, Self) = Keep(last.pre.seq, last.p)

\* C3: when remove_all_satisfying(predicate) returns, head() is the first and
\* tail() the last surviving element (None when nothing survives), and the tail
\* slot has no successor.
RemoveAllHeadAndTail ==
    (last.op = "remove_all_satisfying" /\ last.res = "Ok")
        => LET kept == Keep(last.pre.seq, last.p) IN
           /\ head(buf, Self) = IF kept = <<>> THEN <<>> ELSE <<kept[1]>>
           /\ tail(buf, Self) = IF kept = <<>> THEN <<>> ELSE <<kept[Len(kept)]>>
           /\ Self.tail # NULL => buf[Self.tail].next = NULL

\* C4: an append or prepend returns Ok exactly when free_space() was positive
\* before the call, and OutOfSpace otherwise.
InsertSucceedsIffFreeSpace ==
    (Returned("append") \/ Returned("prepend"))
        => /\ last.res = "Ok" <=> last.pre.free_space > 0
           /\ last.res = "OutOfSpace" <=> last.pre.free_space = 0

\* C5: dropping a list of size m completes, leaves free_space() m higher than it
\* was and lists() one lower.
DropReturnsEverySlot ==
    last.op = "drop"
        => /\ last.res = "Ok"
           /\ free_space(array) = last.pre.free_space + last.pre.size
           /\ lists(array) = last.pre.lists - 1

\* C6: a successful append leaves the list iterating as before with the value
\* added last, a successful prepend as before with the value added first.
InsertionOrder ==
    /\ (last.op = "append" /\ last.res = "Ok")
          => Iter(buf, Self) = Append(last.pre.seq, last.v)
    /\ (last.op = "prepend" /\ last.res = "Ok")
          => Iter(buf, Self) = <<last.v>> \o last.pre.seq

\* An append or a prepend has just extended a non-empty list with a slot that lies
\* before one the list already held: the free chain no longer runs in memory order.
InsertionOrderReusedSlot ==
    /\ last.op \in {"append", "prepend"}
    /\ last.res = "Ok"
    /\ Len(last.pre.seq) >= 2
    /\ LET new == IF last.op = "append" THEN Self.tail ELSE Self.head
       IN  \E s \in Range(Chain(buf, Self.head, {})) : new < s

\* C7: at(i) on a list of size n returns IndexOutOfBounds exactly when i >= n,
\* and for i < n returns Ok with element i of the iteration order.
AtIndex ==
    last.op = "at"
        => /\ last.res = "IndexOutOfBounds" <=> last.v >= last.pre.size
           /\ last.v < last.pre.size
                 => /\ last.res = "Ok"
                    /\ last.v < Len(last.pre.seq)
                    /\ last.item = <<last.pre.seq[last.v + 1]>>

\* C8: remove_head() returns HeadIsNull exactly when the list holds no element;
\* on a list that holds some it returns Ok, the rest of the list is left in its
\* order, tail is none exactly when the removed slot was the only one, size() is
\* one lower and free_space() one higher.
RemoveHeadTakesTheFirst ==
    last.op = "remove_head"
        => /\ last.res = "HeadIsNull" <=> last.pre.seq = <<>>
           /\ last.pre.seq # <<>>
                 => /\ last.res = "Ok"
                    /\ Iter(buf, Self) = Tail(last.pre.seq)
                    /\ (Self.tail = NULL) <=> (Len(last.pre.seq) = 1)
                    /\ size(Self) = last.pre.size - 1
                    /\ free_space(array) = last.pre.free_space + 1

\* C9: new() on a buffer shorter than one Linked<U32Clear> returns an array with
\* capacity() = 0, free_space() = 0, is_full() and an empty free chain.
ShortBufferIsEmptyArray ==
    (last.op = "new" /\ last.res # "ZeroSizedType" /\ last.v < SizeOfLinked(U32Size))
        => /\ status = "ok"
           /\ last.res = "Ok"
           /\ capacity(array) = 0
           /\ free_space(array) = 0
           /\ is_full(array)
           /\ array.free = NULL

\* C10: an append, prepend or remove_head that returns an error changes nothing
\* of the array, the buffer or any list.
FailedCallChangesNothing ==
    [][(/\ last.op = "none"
        /\ last'.op \in {"append", "prepend", "remove_head"}
        /\ last'.res \in {"OutOfSpace", "NullPointer", "HeadIsNull"})
          => UNCHANGED <<array, buf, list>>]_vars

\* An append has just failed on a list that holds elements, with the other list
\* holding some too.
FailedAppendOnUsedList ==
    /\ last.op = "append"
    /\ last.res = "OutOfSpace"
    /\ last.pre.size > 0
    /\ \E h \in Handles : h # last.l /\ list[h].live /\ size(list[h]) > 0

\* C11: lists() is the number of lists made by new_list() and not dropped yet;
\* new_list() returns an empty list with no head and no tail and raises lists()
\* by one, and every drop of a list lowers it by one.
ListsCounter ==
    /\ status = "ok" => lists(array) = Cardinality({h \in Handles : list[h].live})
    /\ Returned("new_list")
          => /\ size(Self) = 0 /\ Self.head = NULL /\ Self.tail = NULL
             /\ lists(array) = last.pre.lists + 1
    /\ last.op = "drop" => last.res = "Ok" /\ lists(array) = last.pre.lists - 1

ZeroSizedTypeRefused ==
    /\ elem_size = 0 => status = "none"
    /\ last.op = "new" => (last.res = "ZeroSizedType" <=> elem_size = 0)

\* new() has just been called for an element type of size 0 on a buffer that
\* is not empty.
ZeroSizedTypeOnBuffer ==
    /\ last.op = "new"
    /\ elem_size = 0
    /\ last.v > 0

\* The chain from h comes to an end: it reaches none without meeting a slot twice
RECURSIVE ChainEnds(_, _, _)
ChainEnds(b, h, seen) ==
    IF h = NULL THEN TRUE
    ELSE IF h \in seen THEN FALSE
    ELSE ChainEnds(b, b[h].next, seen \cup {h})

Live == {h \in Handles : list[h].live}

\* The slots on the free chain (c = 0) or on the chain of list c
OnChain(c) == Range(Chain(buf, IF c = 0 THEN array.free ELSE list[c].head, {}))

\* The caller can look at the array: it is built, no call is running
Observable == status = "ok" /\ frame.pc = "idle"

\* C14: every slot of the array is on exactly one chain, the free chain or the
\* chain of one live list, and on that chain once.
SlotOnExactlyOneChain ==
    Observable
        => /\ ChainEnds(buf, array.free, {})
           /\ \A h \in Live : ChainEnds(buf, list[h].head, {})
           /\ \A s \in 1 .. capacity(array) :
                Cardinality({c \in Live \cup {0} : s \in OnChain(c)}) = 1

\* C15: every live list is well formed: head and tail are both none exactly
\* when size() is 0; otherwise the chain from head holds size() distinct slots,
\* ends in the tail slot, and the tail slot has no successor.
ListWellFormed ==
    Observable
        => \A h \in Live :
             LET L == list[h]
                 c == Chain(buf, L.head, {})
             IN  /\ (L.head = NULL /\ L.tail = NULL) <=> size(L) = 0
                 /\ L.head = NULL <=> L.tail = NULL
                 /\ size(L) > 0
                       => /\ ChainEnds(buf, L.head, {})
                          /\ Len(c) = size(L)
                          /\ c[Len(c)] = L.tail
                          /\ buf[L.tail].next = NULL

\* Position of slot s on chain c
IndexOn(c, s) == CHOOSE i \in 1 .. Len(c) : c[i] = s

\* C16: remove_all_satisfying makes one forward pass over the list as it was at
\* the call: each pass of the loop examines a slot of that chain, the next pass
\* examines the slot after it, and after the last slot of the chain the call
\* returns; so it examines size() slots, none of them on the free chain.
RemoveAllSinglePass ==
    [][(frame.pc = "loop" /\ status' = "ok")
          => LET c == last.pre.chain IN
             /\ frame.cursor \in Range(c)
             /\ IF IndexOn(c, frame.cursor) = Len(c)
                THEN frame'.pc = "idle"
                ELSE frame'.pc = "loop" /\ frame'.cursor = c[IndexOn(c, frame.cursor) + 1]]_vars

\* C17: new() leaves every slot of the array cleared and linked to the slot
\* after it in memory, the last one to none, with the free chain starting at the
\* first slot, whatever the buffer held.
NewClearsEverySlot ==
    (last.op = "new" /\ last.res = "Ok")
        => /\ array.free = 1
           /\ \A s \in 1 .. capacity(array) :
                /\ buf[s].data = CLEARED
                /\ buf[s].next = IF s = capacity(array) THEN NULL ELSE s + 1

\* C18: a slot that a step puts on the free chain holds the cleared value when
\* the step is done, and a slot that is cleared and stays on the free chain
\* stays cleared: no released slot keeps the data of its former occupant.
ReleasedSlotIsCleared ==
    [][\A s \in Slots :
          s \in OnChain(0)'
             => /\ s \notin OnChain(0) /\ status = "ok" => buf'[s].data = CLEARED
                /\ s \in OnChain(0) /\ buf[s].data = CLEARED => buf'[s].data = CLEARED]_vars

\* remove_all_satisfying has just returned after releasing slots that held 1,
\* and the head of the free chain is one of them.
ReleasedSlotWasUsed ==
    /\ last.op = "remove_all_satisfying"
    /\ last.res = "Ok"
    /\ last.p = {1}
    /\ array.free \in Range(last.pre.chain)
    /\ last.pre.seq[IndexOn(last.pre.chain, array.free)] = 1

\* C19: a step of a call on one list leaves every other live list as it was:
\* its size, head and tail, and the elements it iterates over.
OtherListsUntouched ==
    [][LET actor == IF frame.pc = "loop" THEN frame.self ELSE last'.l IN
       \A h \in Handles \ {actor} :
          list[h].live
             => /\ list'[h] = list[h]
                /\ Iter(buf', list'[h]) = Iter(buf, list[h])]_vars

\* remove_all_satisfying has just returned from removing elements of one list
\* while the other list holds elements too.
RemovedBesideOtherList ==
    /\ last.op = "remove_all_satisfying"
    /\ last.res = "Ok"
    /\ size(Self) < last.pre.size
    /\ \E h \in Live \ {last.l} : Len(Iter(buf, list[h])) > 0

\* C20: the free chain comes to an end without meeting a slot twice and holds
\* free_space() slots, capacity() of them right after new(); the head of the
\* free chain is none exactly when is_full().
FreeChainHoldsFreeSpace ==
    Observable
        => /\ ChainEnds(buf, array.free, {})
           /\ Len(Chain(buf, array.free, {})) = free_space(array)
           /\ array.free = NULL <=> is_full(array)
           /\ last.op = "new" => Len(Chain(buf, array.free, {})) = capacity(array)

====
